---- MODULE Spec2Model ----
(***************************************************************************)
(* Model of the smart-pointer traits of src/src/lib.rs: SmartPointer,      *)
(* SmartPointerMut and IntoMut.                                            *)
(*                                                                         *)
(* The crate declares traits only.  The two provided methods, into_mut     *)
(* and get_mut, are translated from their bodies.  The required methods    *)
(* (new, try_unwrap, can_make_mut, into_mut_unchecked, get_mut_unchecked)  *)
(* and the supertrait operations (Clone, drop, Deref, DerefMut) are        *)
(* modelled by a reference-counted pointer that follows their documented   *)
(* contract: every value instance carries a share count, a handle is a     *)
(* variable of the caller that points at an instance.                      *)
(*                                                                         *)
(* The caller is a single-threaded safe Rust program.  What the borrow     *)
(* checker enforces on it is part of the guards: a handle that is          *)
(* borrowed by a live reference cannot be moved (drop, try_unwrap,         *)
(* into_mut take it by value) but can be used through a shared borrow      *)
(* (clone, can_make_mut, get_mut, deref take &Self).                       *)
(***************************************************************************)
EXTENDS Integers, FiniteSets, Sequences, TLC

\* Bounds of the model.
MaxHandles == 2
MaxInst == 2
MaxVal == 1

Handles == 1..MaxHandles
Insts == 1..MaxInst
Values == 0..MaxVal

VARIABLES
    handle,   \* handle[h]: the instance and pointer type of caller variable h
    count,    \* count[i]: share count stored with instance i
    val,      \* val[i]: the wrapped value of instance i
    life,     \* life[i]: "unused", "live", "moved" (unwrapped) or "dropped"
    refs,     \* refs[h]: a &mut T obtained from get_mut(&h) is live
    stale,    \* stale[i]: the value of i when its live &mut T was created
    last,     \* the last call and what it returned
    prev,     \* the call before the last one, when on the same handle
    pc        \* the into_mut or get_mut call that is between its check and its end

vars == <<handle, count, val, life, refs, stale, last, prev, pc>>

\* A caller variable that holds no pointer (never assigned, moved out or dropped).
NoHandle == [inst |-> 0, kind |-> "none"]

Live(h) == handle[h] # NoHandle

\* The live handles that reference instance i.
LiveHandlesOf(i) == {h \in Handles : handle[h].inst = i}

FreeHandles == {h \in Handles : ~Live(h)}
UnusedInsts == {i \in Insts : life[i] = "unused"}

\* The variable a newly returned pointer is bound to, the instance an allocation yields.
FreshHandle == CHOOSE h \in FreeHandles : \A g \in FreeHandles : h <= g
FreshInst == CHOOSE i \in UnusedInsts : \A j \in UnusedInsts : i <= j

\* What a call returned: ok is Ok/Some/true, val the value carried (if any),
\* h the handle passed (for new, the handle returned), inst its instance.
Call(op, h, i, ok, v) ==
    [op |-> op, h |-> h, inst |-> i, ok |-> ok, val |-> v]

NoCall == Call("none", 0, 0, TRUE, {})

\* The call before call c, remembered for the call sequences the properties
\* are about: try_unwrap(new(v)); a can_make_mut followed at once by a
\* try_unwrap or a can_make_mut of the same handle; into_mut followed by
\* writes through the MutablePointer and the conversion back.
Before(c) ==
    IF c.op \in {"try_unwrap", "can_make_mut"}
          /\ last.op \in {"new", "can_make_mut"} /\ last.h = c.h
       THEN [op |-> last.op, ok |-> last.ok]
       ELSE IF c.op \in {"write_mut", "into"} /\ last.op = "into_mut" /\ last.h = c.h
               THEN [op |-> last.op, ok |-> last.ok]
               ELSE IF c.op \in {"write_mut", "into"} /\ last.op = "write_mut"
                          /\ prev.op = "into_mut" /\ last.h = c.h
                       THEN prev
                       ELSE [op |-> "none", ok |-> TRUE]

\* No into_mut or get_mut call is between its check and its end.
Idle == pc.op = "idle"

\* A call that ran to its end at once.  When it ran while a two-step call of
\* another thread was between its check and its end, that call is marked.
Returns(c) ==
    /\ last' = c
    /\ prev' = Before(c)
    /\ pc' = IF Idle THEN pc ELSE [pc EXCEPT !.raced = TRUE]

Init ==
    /\ handle = [h \in Handles |-> NoHandle]
    /\ count = [i \in Insts |-> 0]
    /\ val = [i \in Insts |-> 0]
    /\ life = [i \in Insts |-> "unused"]
    /\ refs = [h \in Handles |-> FALSE]
    /\ stale = [i \in Insts |-> 0]
    /\ last = NoCall
    /\ prev = [op |-> "none", ok |-> TRUE]
    /\ pc = [op |-> "idle", h |-> 0, ok |-> FALSE, raced |-> FALSE]

\* Deref::deref(&h): the value seen through handle h.
deref(h) == val[handle[h].inst]

\* IntoMut::can_make_mut(&h).
can_make_mut(h) == count[handle[h].inst] = 1

\* New with the share count started at 0 (counting only the other handles).
NewCountZero(v) ==
    /\ FreeHandles # {}
    /\ UnusedInsts # {}
    /\ LET h == FreshHandle
           i == FreshInst
       IN  /\ handle' = [handle EXCEPT ![h] = [inst |-> i, kind |-> "shared"]]
           /\ count' = [count EXCEPT ![i] = 0]
           /\ val' = [val EXCEPT ![i] = v]
           /\ life' = [life EXCEPT ![i] = "live"]
           /\ Returns(Call("new", h, i, TRUE, {v}))
    /\ UNCHANGED <<refs, stale>>

\* SmartPointer::new(v).
New(v) ==
    /\ FreeHandles # {}
    /\ UnusedInsts # {}
    /\ LET h == FreshHandle
           i == FreshInst
       IN  /\ handle' = [handle EXCEPT ![h] = [inst |-> i, kind |-> "shared"]]
           /\ count' = [count EXCEPT ![i] = 1]
           /\ val' = [val EXCEPT ![i] = v]
           /\ life' = [life EXCEPT ![i] = "live"]
           /\ Returns(Call("new", h, i, TRUE, {v}))
    /\ UNCHANGED <<refs, stale>>

\* Clone that forgets to raise the share count.
CloneNoCount(h) ==
    /\ Live(h)
    /\ FreeHandles # {}
    /\ LET h2 == FreshHandle
           i == handle[h].inst
       IN  /\ handle' = [handle EXCEPT ![h2] = handle[h]]
           /\ Returns(Call("clone", h, i, TRUE, {}))
    /\ UNCHANGED <<count, val, life, refs, stale>>

\* Clone that copies the value into a new instance (a deep copy).
CloneDeep(h) ==
    /\ Live(h)
    /\ FreeHandles # {}
    /\ UnusedInsts # {}
    /\ LET h2 == FreshHandle
           i == FreshInst
       IN  /\ handle' = [handle EXCEPT ![h2] = [inst |-> i, kind |-> handle[h].kind]]
           /\ count' = [count EXCEPT ![i] = 1]
           /\ val' = [val EXCEPT ![i] = deref(h)]
           /\ life' = [life EXCEPT ![i] = "live"]
           /\ Returns(Call("clone", h, handle[h].inst, TRUE, {}))
    /\ UNCHANGED <<refs, stale>>

\* Clone::clone(&h): a new handle of the same pointer type to the same instance.
Clone(h) ==
    /\ Live(h)
    /\ FreeHandles # {}
    /\ LET h2 == FreshHandle
           i == handle[h].inst
       IN  /\ handle' = [handle EXCEPT ![h2] = handle[h]]
           /\ count' = [count EXCEPT ![i] = @ + 1]
           /\ Returns(Call("clone", h, i, TRUE, {}))
    /\ UNCHANGED <<val, life, refs, stale>>

\* drop(h): the handle goes away; the value's lifetime ends with its last handle.
Drop(h) ==
    /\ Live(h)
    /\ ~refs[h]
    /\ LET i == handle[h].inst
       IN  /\ handle' = [handle EXCEPT ![h] = NoHandle]
           /\ count' = [count EXCEPT ![i] = @ - 1]
           /\ IF count[i] = 1
                 THEN /\ life' = [life EXCEPT ![i] = "dropped"]
                      /\ val' = [val EXCEPT ![i] = 0]
                 ELSE UNCHANGED <<life, val>>
           /\ Returns(Call("drop", h, i, TRUE, {}))
    /\ UNCHANGED <<refs, stale>>

\* try_unwrap that also succeeds while one other handle is live.
TryUnwrapOffByOne(h) ==
    /\ Live(h)
    /\ ~refs[h]
    /\ LET i == handle[h].inst
       IN  IF count[i] <= 2
              THEN /\ handle' = [handle EXCEPT ![h] = NoHandle]
                   /\ count' = [count EXCEPT ![i] = @ - 1]
                   /\ life' = [life EXCEPT ![i] = "moved"]
                   /\ val' = [val EXCEPT ![i] = 0]
                   /\ Returns(Call("try_unwrap", h, i, TRUE, {val[i]}))
              ELSE /\ UNCHANGED <<handle, count, life, val>>
                   /\ Returns(Call("try_unwrap", h, i, FALSE, {}))
    /\ UNCHANGED <<refs, stale>>

\* try_unwrap whose failure path releases the handle instead of returning it.
TryUnwrapConsuming(h) ==
    /\ Live(h)
    /\ ~refs[h]
    /\ LET i == handle[h].inst
       IN  IF count[i] = 1
              THEN /\ handle' = [handle EXCEPT ![h] = NoHandle]
                   /\ count' = [count EXCEPT ![i] = 0]
                   /\ life' = [life EXCEPT ![i] = "moved"]
                   /\ val' = [val EXCEPT ![i] = 0]
                   /\ Returns(Call("try_unwrap", h, i, TRUE, {val[i]}))
              ELSE /\ handle' = [handle EXCEPT ![h] = NoHandle]
                   /\ count' = [count EXCEPT ![i] = @ - 1]
                   /\ UNCHANGED <<life, val>>
                   /\ Returns(Call("try_unwrap", h, i, FALSE, {}))
    /\ UNCHANGED <<refs, stale>>

\* try_unwrap that compares the share count with 0 instead of 1.
TryUnwrapZero(h) ==
    /\ Live(h)
    /\ ~refs[h]
    /\ LET i == handle[h].inst
       IN  IF count[i] = 0
              THEN /\ handle' = [handle EXCEPT ![h] = NoHandle]
                   /\ count' = [count EXCEPT ![i] = 0]
                   /\ life' = [life EXCEPT ![i] = "moved"]
                   /\ val' = [val EXCEPT ![i] = 0]
                   /\ Returns(Call("try_unwrap", h, i, TRUE, {val[i]}))
              ELSE /\ UNCHANGED <<handle, count, life, val>>
                   /\ Returns(Call("try_unwrap", h, i, FALSE, {}))
    /\ UNCHANGED <<refs, stale>>

\* SmartPointer::try_unwrap(h).
TryUnwrap(h) ==
    /\ Live(h)
    /\ ~refs[h]
    /\ LET i == handle[h].inst
       IN  IF count[i] = 1
              THEN /\ handle' = [handle EXCEPT ![h] = NoHandle]
                   /\ count' = [count EXCEPT ![i] = 0]
                   /\ life' = [life EXCEPT ![i] = "moved"]
                   /\ val' = [val EXCEPT ![i] = 0]
                   /\ Returns(Call("try_unwrap", h, i, TRUE, {val[i]}))
              ELSE /\ UNCHANGED <<handle, count, life, val>>
                   /\ Returns(Call("try_unwrap", h, i, FALSE, {}))
    /\ UNCHANGED <<refs, stale>>

\* can_make_mut that probes with a temporary clone and never releases it.
CanMakeMutCounting(h) ==
    /\ Live(h)
    /\ count[handle[h].inst] <= MaxHandles
    /\ count' = [count EXCEPT ![handle[h].inst] = @ + 1]
    /\ Returns(Call("can_make_mut", h, handle[h].inst, can_make_mut(h), {}))
    /\ UNCHANGED <<handle, val, life, refs, stale>>

\* A call of IntoMut::can_make_mut(&h) by the caller.
CanMakeMut(h) ==
    /\ Live(h)
    /\ Returns(Call("can_make_mut", h, handle[h].inst, can_make_mut(h), {}))
    /\ UNCHANGED <<handle, count, val, life, refs, stale>>

\* IntoMut::into_mut_unchecked(h): the same pointer as a MutablePointer.
into_mut_unchecked(h) ==
    handle' = [handle EXCEPT ![h] = [inst |-> handle[h].inst, kind |-> "mut"]]

\* into_mut without the run-time check.
IntoMutNoCheck(h) ==
    /\ handle[h].kind = "shared"
    /\ ~refs[h]
    /\ into_mut_unchecked(h)
    /\ Returns(Call("into_mut", h, handle[h].inst, TRUE, {}))
    /\ UNCHANGED <<count, val, life, refs, stale>>

\* IntoMut::into_mut(h).
IntoMut(h) ==
    /\ handle[h].kind = "shared"
    /\ ~refs[h]
    /\ IF can_make_mut(h)
          THEN /\ into_mut_unchecked(h)
               /\ Returns(Call("into_mut", h, handle[h].inst, TRUE, {}))
          ELSE /\ UNCHANGED handle
               /\ Returns(Call("into_mut", h, handle[h].inst, FALSE, {}))
    /\ UNCHANGED <<count, val, life, refs, stale>>

\* The handles from which a live &mut T into instance i is borrowed.
MutRefsOf(i) == {h \in Handles : handle[h].inst = i /\ refs[h]}

\* IntoMut::get_mut_unchecked(&h): a live &mut T borrowed from h (all the
\* references borrowed from one handle are followed as one).  The compiler
\* may take the value to be reachable through that reference only, so it may
\* keep using the value the instance had when the first one was made.
get_mut_unchecked(h) ==
    /\ refs' = [refs EXCEPT ![h] = TRUE]
    /\ stale' = IF MutRefsOf(handle[h].inst) = {}
                   THEN [stale EXCEPT ![handle[h].inst] = val[handle[h].inst]]
                   ELSE stale

\* get_mut with the branches of the run-time check swapped.
GetMutSwapped(h) ==
    /\ handle[h].kind = "shared"
    /\ IF ~can_make_mut(h)
          THEN /\ get_mut_unchecked(h)
               /\ Returns(Call("get_mut", h, handle[h].inst, TRUE, {deref(h)}))
          ELSE /\ UNCHANGED <<refs, stale>>
               /\ Returns(Call("get_mut", h, handle[h].inst, FALSE, {}))
    /\ UNCHANGED <<handle, count, val, life>>

\* IntoMut::get_mut(&h).
GetMut(h) ==
    /\ handle[h].kind = "shared"
    /\ IF can_make_mut(h)
          THEN /\ get_mut_unchecked(h)
               /\ Returns(Call("get_mut", h, handle[h].inst, TRUE, {deref(h)}))
          ELSE /\ UNCHANGED <<refs, stale>>
               /\ Returns(Call("get_mut", h, handle[h].inst, FALSE, {}))
    /\ UNCHANGED <<handle, count, val, life>>

\* The end of the lifetime of the references returned by get_mut(&h).
ReleaseRef(h) ==
    /\ refs[h]
    /\ refs' = [refs EXCEPT ![h] = FALSE]
    /\ stale' = IF MutRefsOf(handle[h].inst) = {h}
                   THEN [stale EXCEPT ![handle[h].inst] = 0]
                   ELSE stale
    /\ Returns(Call("release", h, handle[h].inst, TRUE, {}))
    /\ UNCHANGED <<handle, count, val, life>>

\* A write of v through a reference returned by get_mut(&h).
WriteRef(h, v) ==
    /\ refs[h]
    /\ val' = [val EXCEPT ![handle[h].inst] = v]
    /\ Returns(Call("write_ref", h, handle[h].inst, TRUE, {v}))
    /\ UNCHANGED <<handle, count, life, refs, stale>>

\* A write of v through DerefMut::deref_mut(&mut h) of a MutablePointer.
WriteMut(h, v) ==
    /\ handle[h].kind = "mut"
    /\ val' = [val EXCEPT ![handle[h].inst] = v]
    /\ Returns(Call("write_mut", h, handle[h].inst, TRUE, {v}))
    /\ UNCHANGED <<handle, count, life, refs, stale>>

\* The values a read through handle h can yield.  A read through a handle
\* while a &mut T into the same instance is live is undefined behaviour: the
\* build may yield the stored value or the one from before the reference.
Seen(h) ==
    IF MutRefsOf(handle[h].inst) = {}
       THEN {deref(h)}
       ELSE {deref(h), stale[handle[h].inst]}

\* A call of Deref::deref(&h) by the caller, reading the value.
Deref(h) ==
    /\ Live(h)
    /\ \E v \in Seen(h) : Returns(Call("deref", h, handle[h].inst, TRUE, {v}))
    /\ UNCHANGED <<handle, count, val, life, refs, stale>>

\* Into<Self>::into(h) of a MutablePointer: the same pointer as a Self again.
Into(h) ==
    /\ handle[h].kind = "mut"
    /\ handle' = [handle EXCEPT ![h] = [inst |-> handle[h].inst, kind |-> "shared"]]
    /\ Returns(Call("into", h, handle[h].inst, TRUE, {}))
    /\ UNCHANGED <<count, val, life, refs, stale>>

Next ==
    \/ \E v \in Values : New(v)
    \/ \E h \in Handles : Clone(h)
    \/ \E h \in Handles : Drop(h)
    \/ \E h \in Handles : TryUnwrap(h)
    \/ \E h \in Handles : CanMakeMut(h)
    \/ \E h \in Handles : IntoMut(h)
    \/ \E h \in Handles : GetMut(h)
    \/ \E h \in Handles : ReleaseRef(h)
    \/ \E h \in Handles, v \in Values : WriteRef(h, v)
    \/ \E h \in Handles, v \in Values : WriteMut(h, v)
    \/ \E h \in Handles : Deref(h)
    \/ \E h \in Handles : Into(h)

Spec == Init /\ [][Next]_vars

(***************************************************************************)
(* into_mut and get_mut as the two steps of their bodies: the evaluation   *)
(* of can_make_mut, then the branch on its result.                         *)
(***************************************************************************)

\* The end of a two-step call.
Done(c) ==
    /\ last' = c
    /\ prev' = Before(c)
    /\ pc' = [op |-> "idle", h |-> 0, ok |-> FALSE, raced |-> FALSE]

\* The first step of into_mut with the result of the check negated.
CheckIntoMutNegated(h) ==
    /\ Idle
    /\ handle[h].kind = "shared"
    /\ ~refs[h]
    /\ pc' = [op |-> "into_mut", h |-> h, ok |-> ~can_make_mut(h), raced |-> FALSE]
    /\ UNCHANGED <<handle, count, val, life, refs, stale, last, prev>>

\* into_mut(h), first step: `if IntoMut::can_make_mut(&this)`.
CheckIntoMut(h) ==
    /\ Idle
    /\ handle[h].kind = "shared"
    /\ ~refs[h]
    /\ pc' = [op |-> "into_mut", h |-> h, ok |-> can_make_mut(h), raced |-> FALSE]
    /\ UNCHANGED <<handle, count, val, life, refs, stale, last, prev>>

\* into_mut(h), second step: Ok(into_mut_unchecked(this)) or Err(this).
ActIntoMut ==
    /\ pc.op = "into_mut"
    /\ IF pc.ok
          THEN /\ into_mut_unchecked(pc.h)
               /\ Done(Call("into_mut", pc.h, handle[pc.h].inst, TRUE, {}))
          ELSE /\ UNCHANGED handle
               /\ Done(Call("into_mut", pc.h, handle[pc.h].inst, FALSE, {}))
    /\ UNCHANGED <<count, val, life, refs, stale>>

\* The first step of get_mut with the result of the check negated.
CheckGetMutNegated(h) ==
    /\ Idle
    /\ handle[h].kind = "shared"
    /\ pc' = [op |-> "get_mut", h |-> h, ok |-> ~can_make_mut(h), raced |-> FALSE]
    /\ UNCHANGED <<handle, count, val, life, refs, stale, last, prev>>

\* get_mut(&h), first step: `if IntoMut::can_make_mut(this)`.
CheckGetMut(h) ==
    /\ Idle
    /\ handle[h].kind = "shared"
    /\ pc' = [op |-> "get_mut", h |-> h, ok |-> can_make_mut(h), raced |-> FALSE]
    /\ UNCHANGED <<handle, count, val, life, refs, stale, last, prev>>

\* get_mut(&h), second step: Some(get_mut_unchecked(this)) or None.
ActGetMut ==
    /\ pc.op = "get_mut"
    /\ IF pc.ok
          THEN /\ get_mut_unchecked(pc.h)
               /\ Done(Call("get_mut", pc.h, handle[pc.h].inst, TRUE, {deref(pc.h)}))
          ELSE /\ UNCHANGED <<refs, stale>>
               /\ Done(Call("get_mut", pc.h, handle[pc.h].inst, FALSE, {}))
    /\ UNCHANGED <<handle, count, val, life>>

(***************************************************************************)
(* A single-threaded caller: a call starts only when no call is running.   *)
(***************************************************************************)
SeqNew(v) == Idle /\ New(v)
SeqClone(h) == Idle /\ Clone(h)
SeqDrop(h) == Idle /\ Drop(h)
SeqTryUnwrap(h) == Idle /\ TryUnwrap(h)
SeqReleaseRef(h) == Idle /\ ReleaseRef(h)

NextSeq ==
    \/ \E v \in Values : SeqNew(v)
    \/ \E h \in Handles : SeqClone(h)
    \/ \E h \in Handles : SeqDrop(h)
    \/ \E h \in Handles : SeqTryUnwrap(h)
    \/ \E h \in Handles : SeqReleaseRef(h)
    \/ \E h \in Handles : CheckIntoMut(h)
    \/ ActIntoMut
    \/ \E h \in Handles : CheckGetMut(h)
    \/ ActGetMut

SpecSeq == Init /\ [][NextSeq]_vars

(***************************************************************************)
(* Several threads.  One thread is inside into_mut or get_mut; the others  *)
(* clone, drop and unwrap the handles they can reach.  into_mut(this:      *)
(* Self) has taken its handle by value, so no other thread can reach it;   *)
(* get_mut(this: &Self) has borrowed its handle, so another thread that    *)
(* shares the handle by reference can clone it but cannot move it.         *)
(***************************************************************************)
\* A clone by another thread of a handle that into_mut has taken by value.
ThreadCloneAny(g) == Clone(g)

ThreadClone(g) == (pc.op = "into_mut" => g # pc.h) /\ Clone(g)
ThreadDrop(g) == (Idle \/ g # pc.h) /\ Drop(g)
ThreadTryUnwrap(g) == (Idle \/ g # pc.h) /\ TryUnwrap(g)

NextThreads ==
    \/ \E v \in Values : New(v)
    \/ \E g \in Handles : ThreadClone(g)
    \/ \E g \in Handles : ThreadDrop(g)
    \/ \E g \in Handles : ThreadTryUnwrap(g)
    \/ \E h \in Handles : CheckIntoMut(h)
    \/ ActIntoMut
    \/ \E h \in Handles : CheckGetMut(h)
    \/ ActGetMut

SpecThreads == Init /\ [][NextThreads]_vars

TypeOK ==
    /\ handle \in [Handles -> [inst : 0..MaxInst, kind : {"none", "shared", "mut"}]]
    /\ count \in [Insts -> 0..MaxHandles]
    /\ val \in [Insts -> Values]
    /\ life \in [Insts -> {"unused", "live", "moved", "dropped"}]
    /\ refs \in [Handles -> BOOLEAN]
    /\ stale \in [Insts -> Values]
    /\ pc \in [op : {"idle", "into_mut", "get_mut"}, h : 0..MaxHandles,
               ok : BOOLEAN, raced : BOOLEAN]

(***************************************************************************)
(* Properties.                                                             *)
(***************************************************************************)

\* The instance handle h references in the current state.
InstOf(h) == handle[h].inst

\* The step is a call of op on handle h, which references instance i.
Called(op, h, i) == last'.op = op /\ last'.h = h /\ Live(h) /\ InstOf(h) = i

\* C1: while a reference returned by get_mut(&h) is live, h is the only live
\* handle of its value instance.
C1_MutRefOnlyHandle ==
    \A h \in Handles : refs[h] => LiveHandlesOf(InstOf(h)) = {h}

\* C2: a live MutablePointer is the only live handle of its value instance,
\* whatever operations of the traits (clone included) are applied to it.
C2_MutablePointerUnique ==
    \A h \in Handles : handle[h].kind = "mut" => LiveHandlesOf(InstOf(h)) = {h}

\* C3: into_mut(h) returns Ok(MutablePointer) exactly when can_make_mut(&h)
\* holds in the state of the call; otherwise it returns Err with the same
\* handle, and the value and the live handles of the instance are unchanged.
C3_IntoMutOkIffCanMakeMut ==
    [][\A h \in Handles, i \in Insts : Called("into_mut", h, i) =>
          /\ last'.ok <=> can_make_mut(h)
          /\ last'.ok => handle'[h] = [inst |-> i, kind |-> "mut"]
          /\ ~last'.ok => /\ handle'[h] = handle[h]
                          /\ val'[i] = val[i]
                          /\ LiveHandlesOf(i)' = LiveHandlesOf(i)
                          /\ count'[i] = count[i]]_vars

C3_Witness ==
    /\ last.op = "into_mut"
    /\ ~last.ok
    /\ handle[last.h].kind = "shared"
    /\ Cardinality(LiveHandlesOf(last.inst)) = 2

\* C4: get_mut(&h) returns Some(&mut value) exactly when can_make_mut(&h)
\* holds in the state of the call and None otherwise; with None no reference
\* is created and the value and the live handles are unchanged.
C4_GetMutSomeIffCanMakeMut ==
    [][\A h \in Handles, i \in Insts : Called("get_mut", h, i) =>
          /\ last'.ok <=> can_make_mut(h)
          /\ last'.ok => /\ refs' = [refs EXCEPT ![h] = TRUE]
                         /\ last'.val = {val[i]}
          /\ ~last'.ok => /\ refs' = refs
                          /\ val'[i] = val[i]
                          /\ LiveHandlesOf(i)' = LiveHandlesOf(i)
                          /\ count'[i] = count[i]]_vars

C4_Witness ==
    /\ last.op = "get_mut"
    /\ ~last.ok
    /\ ~refs[last.h]
    /\ \E h2 \in LiveHandlesOf(last.inst) : h2 # last.h

\* C5: try_unwrap(h) returns Ok(value) and consumes h if and only if h is
\* the only live handle of its instance at the call; after a success no
\* handle references the instance, in this state and in every later one.
C5_TryUnwrapOkIffSole ==
    /\ [][\A h \in Handles, i \in Insts : Called("try_unwrap", h, i) =>
             /\ last'.ok <=> LiveHandlesOf(i) = {h}
             /\ last'.ok => /\ ~Live(h)'
                            /\ LiveHandlesOf(i)' = {}
                            /\ life'[i] = "moved"]_vars
    /\ [](\A i \in Insts : life[i] = "moved" => LiveHandlesOf(i) = {})
    /\ [][\A i \in Insts : life[i] = "moved" => life'[i] = "moved"]_vars

C5_Witness ==
    /\ last.op = "try_unwrap"
    /\ last.ok
    /\ life[last.inst] = "moved"
    /\ ~Live(last.h)
    /\ LiveHandlesOf(last.inst) = {}
    /\ \E h \in Handles : Live(h)

\* C6: try_unwrap(h) with another handle of the instance live returns Err(h)
\* and changes nothing: the handle still dereferences to the same value, the
\* live handles are the same; dropping the other handle leaves the value,
\* and a try_unwrap of the then only handle returns Ok with that value.
C6_TryUnwrapErrNoChange ==
    [][\A h \in Handles, i \in Insts :
          /\ (Called("try_unwrap", h, i) /\ LiveHandlesOf(i) # {h}) =>
                /\ ~last'.ok
                /\ handle' = handle
                /\ deref(h)' = deref(h)
                /\ <<count, val, life, refs, stale>>' = <<count, val, life, refs, stale>>
          /\ (Called("drop", h, i) /\ LiveHandlesOf(i) # {h}) =>
                /\ val'[i] = val[i]
                /\ LiveHandlesOf(i)' = LiveHandlesOf(i) \ {h}
          /\ (Called("try_unwrap", h, i) /\ LiveHandlesOf(i) = {h}) =>
                /\ last'.ok
                /\ last'.val = {val[i]}]_vars

C6_Witness ==
    /\ last.op = "try_unwrap"
    /\ ~last.ok
    /\ Live(last.h)
    /\ InstOf(last.h) = last.inst
    /\ val[last.inst] = MaxVal
    /\ Cardinality(LiveHandlesOf(last.inst)) = 2

\* C7: can_make_mut(&h) is true if and only if h is the only live handle of
\* its instance: false while a clone is live, true again once every other
\* handle of the instance has been dropped.
C7_CanMakeMutIffSole ==
    \A h \in Handles : Live(h) => (can_make_mut(h) <=> LiveHandlesOf(InstOf(h)) = {h})

C7_Witness ==
    /\ last.op = "drop"
    /\ \E h \in Handles : /\ InstOf(h) = last.inst
                          /\ h # last.h
                          /\ can_make_mut(h)

\* C8: try_unwrap(h) called right after can_make_mut(&h) returns Ok if and
\* only if can_make_mut returned true.
C8_CanMakeMutAgreesTryUnwrap ==
    (prev.op = "can_make_mut" /\ last.op = "try_unwrap") => (last.ok <=> prev.ok)

C8_Witness ==
    /\ prev.op = "can_make_mut"
    /\ prev.ok
    /\ last.op = "try_unwrap"
    /\ last.ok

C10_NewThenTryUnwrap ==
    /\ [](last.op = "new" =>
             /\ count[last.inst] = 1
             /\ LiveHandlesOf(last.inst) = {last.h}
             /\ last.val = {deref(last.h)})
    /\ [][(last.op = "new" /\ last'.op = "try_unwrap" /\ last'.h = last.h) =>
             /\ last'.ok
             /\ last'.val = last.val]_vars

C10_Witness ==
    /\ prev.op = "new"
    /\ last.op = "try_unwrap"
    /\ last.ok
    /\ last.val = {MaxVal}

C13_UncheckedOnlyWhenUnique ==
    /\ []((~Idle /\ pc.ok) => (can_make_mut(pc.h) /\ ~pc.raced))
    /\ [][(~Idle /\ Idle' /\ last'.ok) =>
             /\ can_make_mut(pc.h)
             /\ handle' # handle \/ refs'[pc.h]]_vars

C13_Witness ==
    /\ Idle
    /\ last.op = "into_mut"
    /\ last.ok
    /\ handle[last.h].kind = "mut"
    /\ count[last.inst] = 1

C15_GetMutRace ==
    [][(pc.op = "get_mut" /\ Idle') =>
          /\ last'.ok <=> pc.ok
          /\ pc.ok => refs'[pc.h]
          /\ (pc.ok /\ count[InstOf(pc.h)] # 1) => pc.raced]_vars

C15_Witness ==
    /\ Idle
    /\ last.op = "get_mut"
    /\ last.ok
    /\ refs[last.h]
    /\ count[last.inst] = 2
    /\ Cardinality(LiveHandlesOf(last.inst)) = 2

\* C16: clone gives a new handle to the same instance, not a copy: one more
\* live handle and share count, the value unchanged, both handles reading
\* the same value; a drop lowers the count by one and leaves what the other
\* handles read.
C16_CloneSharesInstance ==
    [][\A h \in Handles, i \in Insts :
          /\ Called("clone", h, i) =>
                /\ Cardinality(LiveHandlesOf(i))' = Cardinality(LiveHandlesOf(i)) + 1
                /\ count'[i] = count[i] + 1
                /\ val' = val
                /\ \A g \in LiveHandlesOf(i)' : Seen(g)' = Seen(h)
          /\ (Called("drop", h, i) /\ LiveHandlesOf(i) # {h}) =>
                /\ Cardinality(LiveHandlesOf(i))' = Cardinality(LiveHandlesOf(i)) - 1
                /\ count'[i] = count[i] - 1
                /\ \A g \in LiveHandlesOf(i) \ {h} :
                      handle'[g] = handle[g] /\ Seen(g)' = Seen(g)]_vars

C16_Witness ==
    /\ last.op = "clone"
    /\ Cardinality(LiveHandlesOf(last.inst)) = 2
    /\ count[last.inst] = 2
    /\ val[last.inst] = MaxVal
====
